---------------------------- MODULE Spec2Model ----------------------------
(***************************************************************************)
(* A model of BDParser (src/src/BDParser.cpp, src/src/BDParser.hpp): the   *)
(* scan of a disc's PLAYLIST directory (BDParser::parse), the decoding of  *)
(* one .mpls file (BDParser::parse_playlist), of one item's stream table   *)
(* (read_stn_info) and of one stream record (read_stream_info), all over a *)
(* byte-level file cursor (StreamReader).                                  *)
(*                                                                         *)
(* A file is a sequence of bytes (0..255).  Unsigned integers wider than   *)
(* TLC's integers (uint32_t raw ticks, uint64_t pts_t) are sequences of    *)
(* bytes, least significant byte first, and keep their width.              *)
(***************************************************************************)
EXTENDS Integers, Sequences, FiniteSets

\* Op(c) with c evaluated once, before the call, as the argument of a C++
\* call is.
ByValue(Op(_), c) == CHOOSE r \in {Op(x) : x \in {c}} : TRUE

(***************************************************************************)
(* Fixed-width unsigned arithmetic on little-endian byte sequences.        *)
(***************************************************************************)
RECURSIVE AddLimbs(_, _, _)
AddLimbs(a, b, c) ==
  IF a = <<>> THEN <<>>
  ELSE LET s == Head(a) + Head(b) + c
       IN  <<s % 256>> \o AddLimbs(Tail(a), Tail(b), s \div 256)

RECURSIVE SubLimbs(_, _, _)
SubLimbs(a, b, br) ==
  IF a = <<>> THEN <<>>
  ELSE LET d == Head(a) - Head(b) - br
       IN  <<d % 256>> \o SubLimbs(Tail(a), Tail(b), IF d < 0 THEN 1 ELSE 0)

RECURSIVE MulLimbs(_, _, _)
MulLimbs(a, k, c) ==
  IF a = <<>> THEN <<>>
  ELSE LET p == Head(a) * k + c
       IN  <<p % 256>> \o MulLimbs(Tail(a), k, p \div 256)

\* Quotient of the number whose limbs from index n down to 1 are a[n..1],
\* by the small divisor d, given the running remainder r.
RECURSIVE DivLimbs(_, _, _, _)
DivLimbs(a, n, d, r) ==
  IF n = 0 THEN <<>>
  ELSE LET t == r * 256 + a[n]
       IN  DivLimbs(a, n - 1, d, t % d) \o <<t \div d>>

\* a < b, for two numbers of the same width.
RECURSIVE LessLimbs(_, _, _)
LessLimbs(a, b, n) ==
  IF n = 0 THEN FALSE
  ELSE IF a[n] # b[n] THEN a[n] < b[n]
  ELSE LessLimbs(a, b, n - 1)

RECURSIVE ToLimbs(_, _)
ToLimbs(v, n) == IF n = 0 THEN <<>> ELSE <<v % 256>> \o ToLimbs(v \div 256, n - 1)

Reverse(s) == [i \in 1..Len(s) |-> s[Len(s) + 1 - i]]

\* using pts_t = uint64_t
U64(v) == ToLimbs(v, 8)
Zero64 == U64(0)
Add64(a, b) == AddLimbs(a, b, 0)
Sub64(a, b) == SubLimbs(a, b, 0)
Less64(a, b) == LessLimbs(a, b, 8)
\* uint32_t widened to 64 bits
Widen(r) == r \o <<0, 0, 0, 0>>

\* swap_uint16 / swap_uint32 applied to the bytes read in file order into a
\* native (least significant byte first) integer: the first file byte ends as
\* the most significant one.
swap_uint(bytes) == Reverse(bytes)

\* The value of a little-endian byte sequence that fits TLC's integers.
RECURSIVE ToNat(_)
ToNat(w) == IF w = <<>> THEN 0 ELSE Head(w) + 256 * ToNat(Tail(w))

\* Mutants of pts_of_raw: the scale 10_000_000 / 45_000 taken as the integer
\* 222; the division done before the multiplication.
pts_of_raw_IntegerScale(r) == MulLimbs(Widen(r), 222, 0)
pts_of_raw_DivideFirst(r) == MulLimbs(DivLimbs(Widen(r), 8, 90, 0), 20000, 0)

\* static_cast<pts_t>(20000.0 * raw / 90): the product of a 32-bit value by
\* 20000 is below 2^53 and exact in a double; the quotient by 90 is either an
\* integer or at least 1/9 away from one, far more than the rounding error of
\* the division, so the truncated result is the integer quotient.
pts_of_raw(r) ==
  LET scaled(raw) == ByValue(LAMBDA product : DivLimbs(product, 8, 90, 0),
                             MulLimbs(Widen(raw), 20000, 0))
  IN  ByValue(scaled, r)


(***************************************************************************)
(* The state.                                                              *)
(***************************************************************************)
VARIABLES
  playlists_,          \* BDParser::playlists_
  pc,                  \* where parse / parse_playlist / read_stn_info stands
  args,                \* parse's skip_playlist_duplicate, check_m2ts_files
  clips,               \* the clip names for which STREAM/<name>.M2TS exists
  seek_past_end_fails, \* whether the build's seekg fails past the end of file
  dir_kind,            \* which family of PLAYLIST directories is iterated
  ndir,                \* the number of entries of the PLAYLIST directory
  nentries,            \* directory entries the iterator has yielded so far
  entry,               \* the directory entry being handled
  reader,              \* parse_playlist's StreamReader
  playlist,            \* parse_playlist's local playlist_t
  loc,                 \* the locals of parse_playlist and read_stn_info
  ret,                 \* what the last parse_playlist call returned
  result,              \* what the last parse call returned
  committed,           \* history: the playlists appended during this parse
  rets,                \* history: per entry iterated, "skipped" by the filter
                       \* or what parse_playlist returned for it
  conv                 \* the pts conversion applied to a drawn raw value

vars == <<playlists_, pc, args, clips, seek_past_end_fails, dir_kind, ndir, nentries,
          entry, reader, playlist, loc, ret, result, committed, rets, conv>>

(***************************************************************************)
(* StreamReader over std::ifstream.  rd.fail is the stream's failbit: once *)
(* set, every later operation fails too.  ops and seeks count the calls    *)
(* issued on the reader.  Each operation returns the reader, the caller's  *)
(* error code (set on failure, never cleared) and the value read.          *)
(***************************************************************************)
NewReader == [pos |-> 0, fail |-> FALSE, ops |-> 0, seeks |-> 0]

read_buffer(f, c, n) ==
  LET read(x) ==
        LET bad == x.rd.fail \/ x.rd.pos + n > Len(f)
        IN  [rd |-> IF bad THEN [x.rd EXCEPT !.fail = TRUE, !.ops = @ + 1]
                           ELSE [x.rd EXCEPT !.pos = @ + n, !.ops = @ + 1],
             ec |-> x.ec \/ bad,
             v  |-> IF bad THEN <<>> ELSE SubSeq(f, x.rd.pos + 1, x.rd.pos + n)]
  IN  ByValue(read, c)

\* uint8_t value = {}; read_buffer(&value, 1, ec); return value;
read_uint8(f, c) ==
  LET value(r) == [r EXCEPT !.v = IF r.v = <<>> THEN 0 ELSE r.v[1]]
  IN  ByValue(value, read_buffer(f, c, 1))

\* if (ec) return {}; return swap_uint16(value);
read_uint16(f, c) ==
  LET value(r) == [r EXCEPT !.v = IF r.ec THEN <<0, 0>> ELSE swap_uint(r.v)]
  IN  ByValue(value, read_buffer(f, c, 2))

read_uint32(f, c) ==
  LET value(r) == [r EXCEPT !.v = IF r.ec THEN <<0, 0, 0, 0>> ELSE swap_uint(r.v)]
  IN  ByValue(value, read_buffer(f, c, 4))

\* stream_.seekg(pos): a no-op on a failed stream; whether a position past
\* the end of the file is an error is left to the implementation.
seek(f, c, target) ==
  LET seekg(x) ==
        LET bad == x.rd.fail \/ (seek_past_end_fails /\ target > Len(f))
        IN  [rd |-> IF bad
                    THEN [x.rd EXCEPT !.fail = TRUE, !.ops = @ + 1, !.seeks = @ + 1]
                    ELSE [x.rd EXCEPT !.pos = target, !.ops = @ + 1, !.seeks = @ + 1],
             ec |-> x.ec \/ bad,
             v  |-> 0]
  IN  ByValue(seekg, c)

\* stream_.seekg(size, std::ios_base::cur)
skip(f, c, n) ==
  LET seekg(x) == seek(f, x, x.rd.pos + n)
  IN  ByValue(seekg, c)

\* Mutant of position: the start of the file, wherever the cursor is.
position_Start(f, c) ==
  LET tellg(x) == [rd |-> [x.rd EXCEPT !.ops = @ + 1], ec |-> x.ec \/ x.rd.fail, v |-> 0]
  IN  ByValue(tellg, c)

\* stream_.tellg(): -1 on a failed stream
position(f, c) ==
  LET tellg(x) ==
        [rd |-> [x.rd EXCEPT !.ops = @ + 1],
         ec |-> x.ec \/ x.rd.fail,
         v  |-> IF x.rd.fail THEN -1 ELSE x.rd.pos]
  IN  ByValue(tellg, c)

Ctx(rd) == [rd |-> rd, ec |-> FALSE, v |-> 0]

(***************************************************************************)
(* enum class StreamType and the groups read_stream_info switches on.      *)
(***************************************************************************)
VideoTypes == {1, 2, 27, 32, 36, 234}
AudioTypes == {3, 4, 128, 129, 130, 131, 132, 133, 134, 161, 162}
PRESENTATION_GRAPHICS == 144
INTERACTIVE_GRAPHICS == 145
SUBTITLE == 146
StreamTypes == VideoTypes \cup AudioTypes \cup {0, 15, 17}
                 \cup {PRESENTATION_GRAPHICS, INTERACTIVE_GRAPHICS, SUBTITLE}

\* BDParser::stream_t s;
NewStream ==
  [pid |-> 0, type |-> 0, lang_code |-> <<>>,
   video_format |-> 0, frame_rate |-> 0, aspect_ratio |-> 0,
   channel_layout |-> 0, sample_rate |-> 0]

\* stream_t::format(): Unknown is 0 in VideoFormat and in ChannelLayout
format(st) ==
  IF st.video_format # 0 THEN "Video"
  ELSE IF st.channel_layout # 0 THEN "Audio"
  ELSE "Subtitles"

\* s.lang_code.resize(3); reader.read_buffer(s.lang_code.data(), 3, ec);
read_lang_code(f, c, s) ==
  LET r == read_buffer(f, c, 3)
  IN  [c |-> r, s |-> [s EXCEPT !.lang_code = IF r.v = <<>> THEN <<0, 0, 0>> ELSE r.v]]

\* Mutant of KnownPid: no PID is ever taken as known.
KnownPid_Never(streams, pid) == FALSE

\* std::find_if(streams.begin(), streams.end(), ... s.pid == pid) != end
KnownPid(streams, pid) == \E i \in 1..Len(streams) : streams[i].pid = pid

\* Mutant of read_pid: the PID is read right after the tag for every shape.
read_pid_NoSkip(f, c, stream_type) ==
  IF stream_type \in 1..4 THEN read_uint16(f, c)
  ELSE [rd |-> c.rd, ec |-> c.ec, v |-> <<>>]

\* The PID by the shape tag (switch (stream_type)): the context after the
\* reads, with no value (<<>>) for a tag outside 1..4 (default: return false).
read_pid(f, c, stream_type) ==
  CASE stream_type = 1 -> read_uint16(f, c)
    [] stream_type \in {2, 4} -> read_uint16(f, skip(f, c, 2))
    [] stream_type = 3 -> read_uint16(f, skip(f, c, 1))
    [] OTHER -> [rd |-> c.rd, ec |-> c.ec, v |-> <<>>]

\* The payload by the coding tag (switch (s.type)).
read_attributes(f, c, s) ==
  CASE s.type \in VideoTypes ->
         LET r == read_uint8(f, c)
         IN  [c |-> r, s |-> [s EXCEPT !.video_format = r.v \div 16,
                                       !.frame_rate = r.v % 16]]
    [] s.type \in AudioTypes ->
         LET r == read_uint8(f, c)
         IN  read_lang_code(f, r, [s EXCEPT !.channel_layout = r.v \div 16,
                                            !.sample_rate = r.v % 16])
    [] s.type \in {PRESENTATION_GRAPHICS, INTERACTIVE_GRAPHICS} ->
         read_lang_code(f, c, s)
    [] s.type = SUBTITLE ->
         read_lang_code(f, skip(f, c, 1), s)
    [] OTHER -> [c |-> c, s |-> s]

(***************************************************************************)
(* read_stream_info: one stream record.  ok is the value returned, rd the  *)
(* reader and streams the vector afterwards; end is pos + size of the      *)
(* attribute sub-record (-1 when it was not reached) and fresh tells       *)
(* whether a record was appended.                                          *)
(***************************************************************************)
read_stream_info(f, rd0, streams) ==
  LET c1 == read_uint8(f, Ctx(rd0))               \* size
      c2 == position(f, c1)                       \* pos
      c3 == read_uint8(f, c2)                     \* stream_type
      Out(ok, rd, st, end, fresh) ==
        [ok |-> ok, rd |-> rd, streams |-> st, end |-> end, fresh |-> fresh]
  IN
  IF c3.ec THEN Out(FALSE, c3.rd, streams, -1, FALSE)
  ELSE
  LET c4 == read_pid(f, c3, c3.v)
  IN
  IF c4.v = <<>> THEN Out(FALSE, c4.rd, streams, -1, FALSE)
  ELSE
  LET pid == ToNat(c4.v)
      c5 == seek(f, c4, c2.v + c1.v)
      c6 == read_uint8(f, c5)                     \* size
      c7 == position(f, c6)                       \* pos
      end == c7.v + c6.v
  IN
  IF c7.ec THEN Out(FALSE, c7.rd, streams, -1, FALSE)
  ELSE IF KnownPid(streams, pid)
  THEN Out(TRUE, seek(f, c7, end).rd, streams, end, FALSE)
  ELSE
  LET c8 == read_uint8(f, c7)                     \* s.type
  IN
  IF c8.ec THEN Out(FALSE, c8.rd, streams, end, FALSE)
  ELSE
  LET a == read_attributes(f, c8, [NewStream EXCEPT !.pid = pid, !.type = c8.v])
  IN
  IF a.c.ec THEN Out(FALSE, a.c.rd, streams, end, FALSE)
  ELSE Out(TRUE,
           seek(f, a.c, end).rd, Append(streams, a.s), end, TRUE)


(***************************************************************************)
(* The inputs: .mpls files as byte sequences, laid out as parse_playlist,  *)
(* read_stn_info and read_stream_info read them.                           *)
(***************************************************************************)
MaxItems == 2      \* items per file of the timing family
MaxAngles == 3     \* angle counts of the angle family
MaxFiles == 3      \* directory entries of a disc directory

Zeros(n) == [i \in 1..n |-> 0]
U16BE(n) == <<n \div 256, n % 256>>
U32BE(n) == <<0, 0>> \o U16BE(n)

RECURSIVE Flatten(_)
Flatten(ss) == IF ss = <<>> THEN <<>> ELSE Head(ss) \o Flatten(Tail(ss))

MPLS == <<77, 80, 76, 83>>                 \* "MPLS"
M2TS == <<77, 50, 84, 83>>                 \* "M2TS"
Versions == {<<48, 51, 48, 48>>, <<48, 50, 48, 48>>, <<48, 49, 48, 48>>}
V0200 == <<48, 50, 48, 48>>                \* "0200"
ClipName(k) == <<48, 48, 48, 48, 48 + k>>  \* "0000k"
RootPath == <<47, 98, 100>>                \* the path argument, "/bd"
Lang == <<101, 110, 103>>                  \* "eng"

\* Raw 45 kHz ticks as stored (big-endian): 0, 9, 450000, 2^32 - 1.
T0 == <<0, 0, 0, 0>>
T9 == <<0, 0, 0, 9>>
T450000 == <<0, 6, 221, 208>>
TMax == <<255, 255, 255, 255>>

\* A stream record: the PID sub-record (shape tag, reserved bytes, PID,
\* padding), then the attribute sub-record with declared length size2.
ShapeSkip(shape) == CASE shape \in {2, 4} -> <<0, 0>> [] shape = 3 -> <<0>> [] OTHER -> <<>>
EncRec(shape, pid, pad, size2, coding, rest) ==
  LET body == <<shape>> \o ShapeSkip(shape) \o U16BE(pid) \o Zeros(pad)
  IN  <<Len(body)>> \o body \o <<size2, coding>> \o rest
\* ... with the declared length covering exactly the bytes that follow it
EncRecExact(shape, pid, coding, rest) == EncRec(shape, pid, 0, 1 + Len(rest), coding, rest)

\* An STN block: 4 reserved bytes, the seven counts, 5 reserved bytes, records.
EncStn(counts, recs) == Zeros(4) \o counts \o Zeros(5) \o recs
EmptyStn == EncStn(Zeros(7), <<>>)

\* The angle block of a multi-angle item.
EncAngles(n) == <<n, 0>> \o Zeros(10 * ((IF n < 1 THEN 1 ELSE n) - 1))

\* A playlist item: length, clip name, "M2TS", 3 flag bytes, start and end
\* ticks, 12 bytes, the angle block (if any), the STN block.
EncItemBody(name, marker, flag, start, end, angles, stn) ==
  name \o marker \o <<0, flag, 0>> \o start \o end \o Zeros(12) \o angles \o stn
EncItem(name, marker, flag, start, end, angles, stn) ==
  LET body == EncItemBody(name, marker, flag, start, end, angles, stn)
  IN  U16BE(Len(body)) \o body
PlainItem(k, start, end, stn) == EncItem(ClipName(k), M2TS, 0, start, end, <<>>, stn)

\* A file: signature, version, address of the playlist block, padding up to
\* it, the block's 6 + 2 + 2 header bytes, the items.
EncFile(sig, ver, addr, nitems, items) ==
  sig \o ver \o U32BE(addr) \o Zeros(addr - 12) \o Zeros(6) \o U16BE(nitems) \o Zeros(2) \o items
PlainFile(nitems, items) == EncFile(MPLS, V0200, 12, nitems, items)


(***************************************************************************)
(* BDParser::parse_playlist, one action per stretch of code between two    *)
(* places where it may return.                                             *)
(***************************************************************************)
NewItem == [file_name |-> <<>>, start_pts |-> Zero64, end_pts |-> Zero64,
            start_time |-> Zero64]
NewPlaylist == [mpls_file_name |-> <<>>, duration |-> Zero64,
                items |-> <<>>, streams |-> <<>>]
NoLoc == [psa |-> 0, nitems |-> 0, i |-> 0, item |-> NewItem,
          counts |-> Zeros(7), stn_ec |-> FALSE, cat |-> 1, k |-> 0,
          rec_ok |-> "none", rec_end |-> -1, rec_fresh |-> FALSE,
          rec_at |-> -1, calls |-> 0]
NoEntry == [name |-> <<>>, regular |-> FALSE, readable |-> FALSE, file |-> <<>>]

env == <<args, clips, seek_past_end_fails, dir_kind, ndir>>
File == entry.file

\* Mutant of ReturnFalse: the playlist is built in place in playlists_ and
\* left there when the call fails.
ReturnFalse_KeepsPartial(rd) ==
  /\ pc' = "scan"
  /\ ret' = "false"
  /\ reader' = rd
  /\ playlists_' = Append(playlists_, playlist)
  /\ rets' = Append(rets, "false")
  /\ UNCHANGED <<committed, playlist, loc>>

\* Mutant of ReturnFalse: a file that fails to decode ends the directory loop.
ReturnFalse_StopsScan(rd) ==
  /\ pc' = "end"
  /\ ret' = "false"
  /\ reader' = rd
  /\ rets' = Append(rets, "false")
  /\ UNCHANGED <<playlists_, committed, playlist, loc>>

\* return false; the local playlist is dropped, playlists_ is not touched.
ReturnFalse(rd) ==
  /\ pc' = "scan"
  /\ ret' = "false"
  /\ reader' = rd
  /\ rets' = Append(rets, "false")
  /\ UNCHANGED <<playlists_, committed, playlist, loc>>

\* A 32-bit offset as a position in the file.  Every model file is far
\* shorter than 2^30 bytes, so an offset of 2^30 or more is a position past
\* its end, and 2^30 stands for all of them.
Offset(w) == IF w[4] >= 64 THEN 1073741824 ELSE ToNat(w)

\* std::format("{}/STREAM/{}{}{}{}{}.M2TS", root_path, buffer[0..4])
ClipPath(root, name) ==
  root \o <<47, 83, 84, 82, 69, 65, 77, 47>> \o name \o <<46>> \o M2TS

\* The order of the header checks: the signature is compared right after it
\* is read (lines 337-340), the version right after it is read (342-345).
\* StreamReader reader(playlist_path, ec); read_buffer(buffer, 4, ec); "MPLS"
PlSignature ==
  /\ pc = "open"
  /\ UNCHANGED <<env, nentries, entry, result, conv>>
  /\ IF ~entry.readable THEN ReturnFalse(NewReader)
     ELSE LET c == read_buffer(File, Ctx(NewReader), 4)
          IN  IF c.ec \/ c.v # MPLS THEN ReturnFalse(c.rd)
              ELSE /\ pc' = "version"
                   /\ reader' = c.rd
                   /\ UNCHANGED <<playlists_, committed, rets, playlist, loc, ret>>

\* Mutant of check_version: only the first character is compared.
check_version_FirstChar(buffer) == buffer[1] = 48

\* #define check_version()
check_version(buffer) == buffer \in Versions

\* read_buffer(buffer, 4, ec); if (ec || !check_version()) return false;
PlVersion ==
  /\ pc = "version"
  /\ UNCHANGED <<env, nentries, entry, result, conv>>
  /\ LET c == read_buffer(File, Ctx(reader), 4)
     IN  IF c.ec \/ ~check_version(c.v) THEN ReturnFalse(c.rd)
         ELSE /\ pc' = "header"
              /\ reader' = c.rd
              /\ UNCHANGED <<playlists_, committed, rets, playlist, loc, ret>>

\* playlist_start_address, the playlist block's header, the local playlist
PlHeader ==
  /\ pc = "header"
  /\ UNCHANGED <<env, nentries, entry, result, conv>>
  /\ LET c1 == read_uint32(File, Ctx(reader))
     IN  IF c1.ec THEN ReturnFalse(c1.rd)
         ELSE LET c2 == seek(File, c1, Offset(c1.v))
                  c3 == skip(File, c2, 6)
                  c4 == read_uint16(File, c3)
              IN  IF c4.ec THEN ReturnFalse(c4.rd)
                  ELSE /\ pc' = "item"
                       /\ reader' = c4.rd
                       /\ playlist' = [NewPlaylist EXCEPT !.mpls_file_name = entry.name]
                       /\ loc' = [NoLoc EXCEPT !.psa = Offset(c1.v) + 10,
                                               !.nitems = ToNat(c4.v)]
                       /\ UNCHANGED <<playlists_, committed, rets, ret>>

\* Mutant of DuplicateClip: the test is left out.
DuplicateClip_Never(items, file_name) == FALSE

\* The test for a clip already among the playlist's items (lines 377-379).
DuplicateClip(items, file_name) ==
  \E n \in 1..Len(items) : items[n].file_name = file_name

\* Mutant of NextItemOffset: the 2 bytes of the length field are not counted.
NextItemOffset_NoField(address, length) == address + length

\* playlist_start_address += reader.read_uint16(ec) + 2;
NextItemOffset(address, length) == address + length + 2

\* One turn of the item loop up to the duplicate-clip test (lines 363-382).
PlItemHead ==
  /\ pc = "item"
  /\ loc.i < loc.nitems
  /\ UNCHANGED <<env, nentries, entry, result, conv>>
  /\ LET c1 == seek(File, Ctx(reader), loc.psa)
         c2 == read_uint16(File, c1)
         c3 == read_buffer(File, c2, 9)
     IN  IF c3.ec \/ SubSeq(c3.v, 6, 9) # M2TS THEN ReturnFalse(c3.rd)
         ELSE LET file_name == ClipPath(RootPath, SubSeq(c3.v, 1, 5))
              IN  IF args.check_m2ts_files /\ file_name \notin clips
                  THEN ReturnFalse(c3.rd)
                  ELSE IF DuplicateClip(playlist.items, file_name)
                  THEN ReturnFalse(c3.rd)
                  ELSE /\ pc' = "body"
                       /\ reader' = c3.rd
                       /\ loc' = [loc EXCEPT !.psa = NextItemOffset(@, ToNat(c2.v)),
                                             !.item = [NewItem EXCEPT !.file_name = file_name]]
                       /\ UNCHANGED <<playlists_, committed, rets, playlist, ret>>

\* Mutant of SkipAngles: 10 bytes are skipped for every angle, the first too.
SkipAngles_EveryAngle(f, c, j, angle_count) == skip(f, c, 10 * angle_count)

RECURSIVE SkipAngles(_, _, _, _)
\* for (uint8_t j = 1; j < angle_count; j++) reader.skip(10, ec);
SkipAngles(f, c, j, angle_count) ==
  IF j < angle_count THEN SkipAngles(f, skip(f, c, 10), j + 1, angle_count) ELSE c

\* Mutant of Accumulate: start_pts is not subtracted.
Accumulate_NoStart(duration, item) == Add64(duration, item.end_pts)

\* playlist.duration += (item.end_pts - item.start_pts), on uint64_t
Accumulate(duration, item) ==
  LET add(d) == ByValue(LAMBDA x : Add64(d, x),
                        ByValue(LAMBDA it : Sub64(it.end_pts, it.start_pts), item))
  IN  ByValue(add, duration)

\* The flags, the two PTS, the duration, the angle block (lines 384-412).
PlItemBody ==
  /\ pc = "body"
  /\ UNCHANGED <<env, nentries, entry, result, conv>>
  /\ LET c1 == read_buffer(File, Ctx(reader), 3)
     IN  IF c1.ec THEN ReturnFalse(c1.rd)
         ELSE
         LET multi_angle == (c1.v[2] \div 16) % 2 = 1
             c2 == read_uint32(File, c1)
             c3 == read_uint32(File, c2)
         IN  IF c3.ec THEN ReturnFalse(c3.rd)
             ELSE
             LET item == [loc.item EXCEPT !.start_pts = pts_of_raw(c2.v),
                                          !.end_pts = pts_of_raw(c3.v),
                                          !.start_time = playlist.duration]
                 c4 == skip(File, c3, 12)
                 c5 == IF multi_angle THEN read_uint8(File, c4) ELSE c4
                 angle_count == IF multi_angle THEN (IF c5.v < 1 THEN 1 ELSE c5.v) ELSE 1
                 c6 == IF multi_angle THEN skip(File, c5, 1) ELSE c5
                 c7 == SkipAngles(File, c6, 1, angle_count)
             IN  IF c7.ec THEN ReturnFalse(c7.rd)
                 ELSE /\ pc' = "stn"
                      /\ reader' = c7.rd
                      /\ playlist' = [playlist EXCEPT !.duration = Accumulate(@, item)]
                      /\ loc' = [loc EXCEPT !.item = item]
                      /\ UNCHANGED <<playlists_, committed, rets, ret>>


(***************************************************************************)
(* read_stn_info, called for the item being decoded.                       *)
(***************************************************************************)
RECURSIVE ReadCounts(_, _, _)
\* the seven count bytes, read one after the other
ReadCounts(f, c, n) ==
  IF n = 0 THEN [c |-> c, counts |-> <<>>]
  ELSE LET r == read_uint8(f, c)
           t == ReadCounts(f, r, n - 1)
       IN  [c |-> t.c, counts |-> <<r.v>> \o t.counts]

\* skip(4), the counts, if (ec) return false, skip(5)  (lines 227-247)
StnHeader ==
  /\ pc = "stn"
  /\ UNCHANGED <<env, nentries, entry, result, conv>>
  /\ \E t \in {ReadCounts(File, skip(File, Ctx(reader), 4), 7)} :
         IF t.c.ec THEN ReturnFalse(t.c.rd)
         ELSE LET c2 == skip(File, t.c, 5)
              IN  /\ pc' = "record"
                  /\ reader' = c2.rd
                  /\ loc' = [loc EXCEPT !.counts = t.counts, !.stn_ec = c2.ec,
                                        !.cat = 1, !.k = 0, !.rec_ok = "none",
                                        !.rec_end = -1, !.rec_fresh = FALSE,
                                        !.rec_at = -1, !.calls = 0]
                  /\ UNCHANGED <<playlists_, committed, rets, playlist, ret>>

\* The bound of the loop of category cat, in the order of the six loops:
\* num_video, num_audio, num_pg + num_pip_pg, num_ig, num_secondary_audio,
\* num_secondary_video (counts holds them in the order they are read).
LoopBound(counts, cat) ==
  CASE cat = 1 -> counts[1]
    [] cat = 2 -> counts[2]
    [] cat = 3 -> counts[3] + counts[7]
    [] cat = 4 -> counts[4]
    [] cat = 5 -> counts[5]
    [] cat = 6 -> counts[6]

\* One turn of a record loop: read_stream_info on the playlist's streams.
StnRecord ==
  /\ pc = "record"
  /\ loc.k < LoopBound(loc.counts, loc.cat)
  /\ UNCHANGED <<env, nentries, entry, result, conv>>
  /\ \E r \in {read_stream_info(File, reader, playlist.streams)} :
         /\ reader' = r.rd
         /\ loc' = [loc EXCEPT !.rec_ok = IF r.ok THEN "true" ELSE "false",
                               !.rec_end = r.end, !.rec_fresh = r.fresh,
                               !.rec_at = reader.pos, !.calls = @ + 1,
                               !.k = IF r.ok /\ loc.cat < 5 THEN (@ + 1) % 256 ELSE @]
         /\ playlist' = [playlist EXCEPT !.streams = r.streams]
         /\ IF r.ok
            THEN /\ pc' = IF loc.cat < 5 THEN "record" ELSE "extra"
                 /\ UNCHANGED <<ret, rets>>
            ELSE /\ pc' = "scan"
                 /\ ret' = "false"
                 /\ rets' = Append(rets, "false")
         /\ UNCHANGED <<playlists_, committed>>

\* An extra-attributes block: a length byte, a reserved byte, the bytes,
\* and one more when the length is odd.
read_extra(f, c) ==
  LET c1 == read_uint8(f, c)
      c2 == skip(f, c1, 1)
      c3 == IF c1.v # 0 THEN skip(f, c2, c1.v) ELSE c2
  IN  IF c1.v # 0 /\ c1.v % 2 = 1 THEN skip(f, c3, 1) ELSE c3

\* After a secondary audio record: one block; after a secondary video
\* record: two; then if (ec) return false, on read_stn_info's own ec.
StnExtra ==
  /\ pc = "extra"
  /\ UNCHANGED <<env, nentries, entry, result, conv>>
  /\ LET c0 == [rd |-> reader, ec |-> loc.stn_ec, v |-> 0]
         c1 == read_extra(File, c0)
         c2 == IF loc.cat = 6 THEN read_extra(File, c1) ELSE c1
     IN  IF c2.ec THEN ReturnFalse(c2.rd)
         ELSE /\ pc' = "record"
              /\ reader' = c2.rd
              /\ loc' = [loc EXCEPT !.k = (@ + 1) % 256, !.rec_ok = "none"]
              /\ UNCHANGED <<playlists_, committed, rets, playlist, ret>>

\* The next loop after that of category cat that has a turn to take (a loop
\* whose bound is 0 is passed without effect), 7 when there is none.
RECURSIVE NextLoop(_, _)
NextLoop(counts, cat) ==
  IF cat >= 6 THEN 7
  ELSE IF LoopBound(counts, cat + 1) > 0 THEN cat + 1
  ELSE NextLoop(counts, cat + 1)

\* A record loop ends: on to the next one, or return true and
\* playlist.items.emplace_back(std::move(item)) (line 418).
StnAdvance ==
  /\ pc = "record"
  /\ loc.k >= LoopBound(loc.counts, loc.cat)
  /\ UNCHANGED <<env, nentries, entry, result, conv, reader, playlists_, committed, rets, ret>>
  /\ IF NextLoop(loc.counts, loc.cat) <= 6
     THEN /\ pc' = "record"
          /\ loc' = [loc EXCEPT !.cat = NextLoop(loc.counts, loc.cat), !.k = 0]
          /\ UNCHANGED playlist
     ELSE /\ pc' = "item"
          /\ playlist' = [playlist EXCEPT !.items = Append(@, loc.item)]
          /\ loc' = [loc EXCEPT !.i = @ + 1]

\* Mutant of PlaylistEq: the file name is compared too.
PlaylistEq_WithName(a, b) == a = b

\* playlist_t::operator== : the file name is not compared
PlaylistEq(a, b) ==
  a.duration = b.duration /\ a.items = b.items /\ a.streams = b.streams

\* Mutant of ZeroDuration: the test is left out.
ZeroDuration_Never(p) == FALSE

\* if (!playlist.duration) return false;
ZeroDuration(p) == p.duration = Zero64

\* After the item loop: the zero-duration test, the duplicate test, the
\* append (lines 421-435).
PlFinish ==
  /\ pc = "item"
  /\ loc.i >= loc.nitems
  /\ UNCHANGED <<env, nentries, entry, result, conv>>
  /\ IF ZeroDuration(playlist) THEN ReturnFalse(reader)
     ELSE IF /\ args.skip_playlist_duplicate
             /\ \E n \in 1..Len(playlists_) : PlaylistEq(playlist, playlists_[n])
     THEN ReturnFalse(reader)
     ELSE /\ playlists_' = Append(playlists_, playlist)
          /\ committed' = Append(committed, playlist)
          /\ rets' = Append(rets, "true")
          /\ pc' = "scan"
          /\ ret' = "true"
          /\ UNCHANGED <<reader, playlist, loc>>


(***************************************************************************)
(* The families of input files.                                            *)
(***************************************************************************)
TickPairs == {<<T0, T450000>>, <<T9, T0>>, <<T0, T9>>, <<T0, TMax>>}

\* n items with clips 1..n, no streams, every choice of tick pairs
TimingFile(t) ==
  PlainFile(Len(t), Flatten([k \in 1..Len(t) |-> PlainItem(k, t[k][1], t[k][2], EmptyStn)]))
TimingFiles ==
  {TimingFile(t) : t \in UNION {[1..n -> TickPairs] : n \in 0..MaxItems}}
    \cup {TimingFile(<<<<T9, T9>>>>), TimingFile(<<<<T0, T0>>, <<T0, T9>>>>)}

\* the scenario of two one-second items
ScenarioFile == TimingFile(<<<<T0, T450000>>, <<T0, T450000>>>>)

\* signatures, versions and block addresses around a one-item playlist
OneItem == PlainItem(1, T0, T450000, EmptyStn)
HeaderFiles ==
  {EncFile(sig, ver, addr, 1, OneItem) :
     sig \in {MPLS, <<77, 80, 76, 88>>, <<109, 112, 108, 115>>},
     ver \in Versions \cup {<<48, 52, 48, 48>>, <<48, 49, 48, 49>>, MPLS},
     addr \in {12, 15}}
    \cup {MPLS \o V0200 \o TMax \o Zeros(10) \o OneItem,
          MPLS \o V0200 \o U32BE(40) \o Zeros(10) \o OneItem}

\* two items over two clip names, and an item without the "M2TS" marker
ClipPairFile(a, b) ==
  PlainFile(2, PlainItem(a, T0, T9, EmptyStn) \o PlainItem(b, T0, T450000, EmptyStn))
ClipFiles ==
  {ClipPairFile(a, b) : a \in 1..2, b \in 1..2}
    \cup {PlainFile(1, EncItem(ClipName(1), <<77, 50, 84, 88>>, 0, T0, T9, <<>>, EmptyStn))}

\* stream records
Pids == <<4113, 4352>>       \* 0x1011, 0x1100
PidA == Pids[1]
PidB == Pids[2]
RecChoices ==
  {EncRecExact(1, PidA, 27, <<97>>),                      \* H.264, 1080p 23.976
   EncRecExact(1, PidB, 27, <<0>>),                       \* H.264, attribute byte 0
   EncRecExact(1, PidA, 129, <<97>> \o Lang),             \* AC-3
   EncRecExact(1, PidB, 129, <<97>> \o Lang),
   EncRecExact(1, PidB, 144, Lang),                       \* presentation graphics
   EncRecExact(1, PidA, 146, <<0>> \o Lang),              \* subtitle
   EncRecExact(1, PidA, 15, <<1, 2, 3>>),                 \* AAC: in the enum, no case
   EncRecExact(1, PidB, 85, <<1, 2, 3>>),                 \* not in the enum
   EncRec(1, PidA, 2, 4, 27, <<97, 9, 9>>),               \* padding and trailing bytes
   EncRec(1, PidA, 0, 2, 129, <<97>> \o Lang),            \* declared shorter than read
   EncRec(1, PidB, 0, 9, 146, <<0>> \o Lang),             \* declared past the data
   EncRecExact(2, PidA, 27, <<97>>),
   EncRecExact(3, PidB, 129, <<97>> \o Lang),
   EncRecExact(4, PidB, 145, Lang),
   EncRecExact(5, PidA, 27, <<97>>),                      \* PID shapes 5 and 0
   EncRecExact(0, PidB, 27, <<97>>)}

OneVideoStn == EncStn(<<1, 0, 0, 0, 0, 0, 0>>, EncRecExact(1, PidA, 27, <<97>>))

\* the records put after one of RecChoices
Followers ==
  {EncRecExact(1, PidA, 27, <<97>>),
   EncRecExact(1, PidB, 129, <<97>> \o Lang),
   EncRecExact(1, PidA, 146, <<0>> \o Lang),
   EncRec(1, PidB, 1, 3, 2, <<0, 9>>),
   EncRec(1, PidB, 0, 9, 146, <<0>> \o Lang)}          \* declared past the end of file

\* one item, two records in the video loop
StreamFiles ==
  {PlainFile(1, PlainItem(1, T0, T450000, EncStn(<<2, 0, 0, 0, 0, 0, 0>>, r1 \o r2))) :
     r1 \in RecChoices, r2 \in Followers}

\* angle blocks, with and without the multi-angle bit (bit 4 of flag byte 1)
AngleFiles ==
  {PlainFile(1, EncItem(ClipName(1), M2TS, flag, T0, T450000, EncAngles(n), OneVideoStn)) :
     flag \in {16, 255}, n \in 0..MaxAngles}
    \cup {PlainFile(1, EncItem(ClipName(1), M2TS, flag, T0, T450000, <<>>, OneVideoStn)) :
            flag \in {0, 239, 16}}

\* a file with every kind of field: a multi-angle item with a record in
\* every loop, then an item repeating one PID and adding one
RichStn1 ==
  EncStn(<<1, 1, 1, 1, 1, 1, 1>>,
         EncRecExact(1, PidA, 27, <<97>>)
           \o EncRecExact(1, PidB, 129, <<97>> \o Lang)
           \o EncRecExact(1, 4608, 144, Lang)
           \o EncRecExact(1, 4609, 144, Lang)
           \o EncRecExact(1, 5120, 145, Lang)
           \o EncRecExact(1, 6656, 162, <<97>> \o Lang) \o <<1, 0, 7, 0>>
           \o EncRecExact(1, 6912, 27, <<97>>) \o <<2, 0, 7, 7>> \o <<0, 0>>)
RichStn2 ==
  EncStn(<<1, 1, 0, 0, 0, 0, 0>>,
         EncRecExact(1, PidA, 2, <<33>>) \o EncRecExact(1, 4353, 129, <<97>> \o Lang))
RichFile ==
  PlainFile(2, EncItem(ClipName(1), M2TS, 16, T0, T450000, EncAngles(2), RichStn1)
                 \o PlainItem(2, T9, T450000, RichStn2))
Truncations == {SubSeq(RichFile, 1, n) : n \in 0..Len(RichFile)}

\* a one-item file whose STN block declares no stream, cut short inside the
\* 5 reserved bytes after the counts or inside the counts
ShortStnFiles ==
  {SubSeq(PlainFile(1, OneItem), 1, Len(PlainFile(1, OneItem)) - cut) : cut \in 1..6}

\* An item whose length field declares extra bytes more than its fields take
\* (fewer when negative), followed by filler bytes that no field covers.
GapItem(k, stn, extra, filler) ==
  LET body == EncItemBody(ClipName(k), M2TS, 0, T0, T9, <<>>, stn)
  IN  U16BE(Len(body) + extra) \o body \o [n \in 1..filler |-> 7]

\* two items, the first with one video stream and 3 bytes of filler inside
\* its declared length
GapFile == PlainFile(2, GapItem(1, OneVideoStn, 3, 3) \o PlainItem(2, T0, T450000, EmptyStn))

\* two items, the first with a length field that agrees or disagrees with
\* the place where the second one starts
GapFiles ==
  {PlainFile(2, GapItem(1, stn, g[1], g[2]) \o PlainItem(2, T0, T450000, OneVideoStn)) :
     stn \in {EmptyStn, OneVideoStn}, g \in {<<0, 0>>, <<3, 3>>, <<3, 0>>, <<-2, 0>>, <<0, 3>>}}
    \cup {GapFile}

\* times copies of rec, one after the other
Repeat(rec, times) == [n \in 1..times * Len(rec) |-> rec[((n - 1) % Len(rec)) + 1]]

\* a record that repeats PidA, with an empty attribute sub-record
RepeatRec == <<3, 1>> \o U16BE(PidA) \o <<0>>

\* one item whose STN block declares 1 video stream, num_pg = 255 and
\* num_pip_pg = 1 (256 turns of the third loop) and 1 interactive-graphics
\* stream, and holds those 258 records
BigPgFile ==
  PlainFile(1, PlainItem(1, T0, T450000,
    EncStn(<<1, 0, 255, 1, 0, 0, 1>>,
           EncRecExact(1, PidA, 27, <<97>>)
             \o Repeat(RepeatRec, 256) \o RepeatRec)))

AllFiles ==
  TimingFiles \cup HeaderFiles \cup ClipFiles \cup StreamFiles \cup AngleFiles
    \cup Truncations \cup ShortStnFiles \cup {BigPgFile} \cup GapFiles

\* the files of a disc directory: one-item playlists of two durations (two
\* of them equal in duration, over different clips), a two-item one, and a
\* file that does not decode
DiscFiles ==
  {TimingFile(<<<<T0, T9>>>>),
   PlainFile(1, PlainItem(2, T0, T9, EmptyStn)),
   TimingFile(<<<<T0, T450000>>>>),
   ScenarioFile,
   EncFile(<<77, 80, 76, 88>>, V0200, 12, 1, OneItem)}

\* two one-item files over the same clip and ticks whose STN blocks hold the
\* same two records, in one order and in the other
OrderedPair ==
  LET ra == EncRecExact(1, PidA, 27, <<97>>)
      rb == EncRecExact(1, PidB, 129, <<97>> \o Lang)
      file(recs) == PlainFile(1, PlainItem(1, T0, T450000,
                                            EncStn(<<2, 0, 0, 0, 0, 0, 0>>, recs)))
  IN  {file(ra \o rb), file(rb \o ra)}

\* the files on which the loops of parse_playlist are followed to their end:
\* item counts 0 to 2, item lengths with and without filler, every angle
\* count, records of every length, 256 turns of the third record loop, and
\* the file with every kind of field
LoopFiles ==
  {PlainFile(0, <<>>), BigPgFile, RichFile}
    \cup GapFiles \cup AngleFiles \cup StreamFiles

(***************************************************************************)
(* BDParser::parse.                                                        *)
(***************************************************************************)
check_paths == {"index.bdmv", "CLIPINF", "PLAYLIST", "STREAM"}
DotMpls == <<46, 109, 112, 108, 115>>      \* ".mpls"

\* string::ends_with
ends_with(str, suffix) ==
  /\ Len(str) >= Len(suffix)
  /\ SubSeq(str, Len(str) - Len(suffix) + 1, Len(str)) = suffix

\* What the directory iterator may yield as its next entry.  A "single"
\* directory holds one regular .mpls file, any of AllFiles; a "disc"
\* directory holds ndir <= MaxFiles entries: .mpls files of DiscFiles, a
\* sub-directory named like one, a file with another suffix, a file that
\* cannot be opened; a "pair" directory holds two .mpls files of OrderedPair;
\* a "loops" directory holds one .mpls file of LoopFiles.
Entries ==
  LET name == <<48 + nentries>> \o DotMpls
      Reg(f) == [name |-> name, regular |-> TRUE, readable |-> TRUE, file |-> f]
  IN  IF dir_kind = "single"
      THEN IF nentries < ndir THEN {Reg(f) : f \in AllFiles} ELSE {}
      ELSE IF nentries >= ndir THEN {}
      ELSE IF dir_kind = "pair" THEN {Reg(f) : f \in OrderedPair}
      ELSE IF dir_kind = "loops" THEN {Reg(f) : f \in LoopFiles}
      ELSE {Reg(f) : f \in DiscFiles}
             \cup {[Reg(ScenarioFile) EXCEPT !.regular = FALSE],
                   [Reg(ScenarioFile) EXCEPT !.name = <<48 + nentries, 109, 112, 108, 115>>],
                   [Reg(ScenarioFile) EXCEPT !.readable = FALSE]}

\* A required path does not exist: return false.
ParseNoDisc ==
  /\ pc = "idle"
  /\ \E missing \in check_paths : result' = "false"
  /\ UNCHANGED <<env, conv, playlists_, pc, nentries, entry, reader, playlist, loc,
                 ret, committed, rets>>

\* Mutant of clear: the vector is left as it is.
clear_Keep(ps) == ps

\* std::vector::clear
clear(ps) == <<>>

\* The required paths exist: playlists_.clear(), and the directory loop.
ParseBegin ==
  /\ pc = "idle"
  /\ UNCHANGED <<clips, seek_past_end_fails, dir_kind, ndir, conv>>
  /\ \E a \in [skip_playlist_duplicate : BOOLEAN, check_m2ts_files : BOOLEAN] :
       /\ playlists_' = clear(playlists_)
       /\ committed' = <<>>
       /\ rets' = <<>>
       /\ args' = a
       /\ pc' = "scan"
       /\ result' = "running"
       /\ nentries' = 0
       /\ entry' = NoEntry
       /\ reader' = NewReader
       /\ playlist' = NewPlaylist
       /\ loc' = NoLoc
       /\ ret' = "none"

\* The filter of the directory loop (line 460).
IsPlaylistFile(e) == e.regular /\ ends_with(e.name, DotMpls)

\* The iterator yields an entry; parse_playlist is called on a regular file
\* whose name ends with ".mpls".
DirEntry ==
  /\ pc = "scan"
  /\ UNCHANGED <<env, playlists_, committed, result, conv>>
  /\ \E e \in Entries :
       /\ nentries' = nentries + 1
       /\ entry' = e
       /\ reader' = NewReader
       /\ playlist' = NewPlaylist
       /\ loc' = NoLoc
       /\ ret' = "none"
       /\ pc' = IF IsPlaylistFile(e) THEN "open" ELSE "scan"
       /\ rets' = IF IsPlaylistFile(e) THEN rets ELSE Append(rets, "skipped")

\* The iterator is at its end.
DirEnd ==
  /\ pc = "scan"
  /\ nentries >= ndir
  /\ pc' = "end"
  /\ UNCHANGED <<env, playlists_, committed, rets, result, conv, nentries, entry, reader,
                 playlist, loc, ret>>

\* Mutant of SortBefore: ascending order.
SortBefore_Ascending(a, b) == Less64(a.duration, b.duration)

\* The comparator given to std::sort.
SortBefore(a, b) == Less64(b.duration, a.duration)

\* std::sort: some permutation in which no element must come before one
\* that precedes it (equal elements end in any order).
Sorted(ps) == \A m, n \in 1..Len(ps) : m < n => ~SortBefore(ps[n], ps[m])
Reorderings(ps) ==
  {[n \in 1..Len(ps) |-> ps[f[n]]] :
     f \in {g \in [1..Len(ps) -> 1..Len(ps)] : \A m, n \in 1..Len(ps) : g[m] = g[n] => m = n}}

\* if (playlists_.empty()) return false; std::sort(...); return true;
ParseEnd ==
  /\ pc = "end"
  /\ pc' = "idle"
  /\ UNCHANGED <<env, committed, rets, conv, nentries, entry, reader, playlist, loc, ret>>
  /\ IF playlists_ = <<>>
     THEN /\ result' = "false"
          /\ UNCHANGED playlists_
     ELSE /\ result' = "true"
          /\ \E ps \in Reorderings(playlists_) :
               /\ Sorted(ps)
               /\ playlists_' = ps

ClipSets ==
  {{ClipPath(RootPath, ClipName(k)) : k \in 1..MaxItems + 1},
   {ClipPath(RootPath, ClipName(1))}}

InitOf(kinds) ==
  /\ playlists_ = <<>>
  /\ pc = "idle"
  /\ args = [skip_playlist_duplicate |-> FALSE, check_m2ts_files |-> FALSE]
  /\ clips \in ClipSets
  /\ seek_past_end_fails \in BOOLEAN
  /\ dir_kind \in kinds
  /\ ndir \in IF dir_kind \in {"single", "loops"} THEN {1}
             ELSE IF dir_kind = "pair" THEN {2} ELSE 0..MaxFiles
  /\ nentries = 0
  /\ entry = NoEntry
  /\ reader = NewReader
  /\ playlist = NewPlaylist
  /\ loc = NoLoc
  /\ ret = "none"
  /\ result = "none"
  /\ committed = <<>>
  /\ rets = <<>>
  /\ conv = <<>>

Init == InitOf({"single", "disc", "pair"})

Next ==
  \/ ParseNoDisc
  \/ ParseBegin
  \/ DirEntry
  \/ DirEnd
  \/ PlSignature
  \/ PlVersion
  \/ PlHeader
  \/ PlItemHead
  \/ PlItemBody
  \/ StnHeader
  \/ StnRecord
  \/ StnExtra
  \/ StnAdvance
  \/ PlFinish
  \/ ParseEnd

Spec == Init /\ [][Next]_vars

\* A step of a parse_playlist call.  parse is sequential code: a call that
\* has begun keeps taking its steps, which is all the fairness there is.
ParsePlaylistStep ==
  \/ PlSignature \/ PlVersion \/ PlHeader \/ PlItemHead \/ PlItemBody
  \/ StnHeader \/ StnRecord \/ StnExtra \/ StnAdvance \/ PlFinish

\* Termination is a matter of one file: the directories of one file, each
\* file of LoopFiles in turn.
InitLive == InitOf({"loops"})

SpecLive == InitLive /\ [][Next]_vars /\ WF_vars(ParsePlaylistStep)


(***************************************************************************)
(* The pts conversion on its own: a raw 32-bit value is drawn, and the     *)
(* conversion is applied to it and to its successor.                       *)
(***************************************************************************)
ByteSamples == {0, 1, 9, 90, 255}
RawSamples == {<<a, b, c, d>> : a \in ByteSamples, b \in ByteSamples,
                                c \in ByteSamples, d \in ByteSamples}

PtsConvert ==
  /\ conv = <<>>
  /\ \E r \in RawSamples :
       LET r1 == AddLimbs(r, <<1, 0, 0, 0>>, 0)
       IN  conv' = [raw |-> r, pts |-> pts_of_raw(r),
                    raw1 |-> r1, pts1 |-> pts_of_raw(r1)]
  /\ UNCHANGED <<env, playlists_, pc, nentries, entry, reader, playlist, loc, ret,
                 result, committed, rets>>

NextPts == PtsConvert

SpecPts == Init /\ [][NextPts]_vars

(***************************************************************************)
(* Properties.                                                             *)
(***************************************************************************)
Range(s) == {s[n] : n \in 1..Len(s)}
Last(s) == s[Len(s)]

\* The sum of (end_pts - start_pts) over the first n items, on 64 bits.
RECURSIVE SumDurations(_, _)
SumDurations(items, n) ==
  IF n = 0 THEN Zero64
  ELSE Add64(SumDurations(items, n - 1), Sub64(items[n].end_pts, items[n].start_pts))

\* C1: in every committed playlist, duration is the sum of end_pts - start_pts
\* over its items (modulo 2^64), and each item's start_time is that sum over
\* the items before it.
C1_DurationIsSum ==
  \A p \in Range(playlists_) :
    /\ p.duration = SumDurations(p.items, Len(p.items))
    /\ \A n \in 1..Len(p.items) : p.items[n].start_time = SumDurations(p.items, n - 1)

\* a committed playlist of two items whose first ends before it starts, so
\* that the sum wraps, and whose second starts at a non-zero time
C1_Witness ==
  \E p \in Range(playlists_) :
    /\ Len(p.items) = 2
    /\ Less64(p.items[1].end_pts, p.items[1].start_pts)
    /\ p.items[2].start_time # Zero64
    /\ p.items[2].end_pts # Zero64

UniquePids(streams) ==
  \A m, n \in 1..Len(streams) : streams[m].pid = streams[n].pid => m = n

\* C2: no two stream records of the playlist being decoded, or of a committed
\* playlist, have the same pid.
C2_UniquePids ==
  /\ UniquePids(playlist.streams)
  /\ \A p \in Range(playlists_) : UniquePids(p.streams)

\* a record of the second item was skipped because its PID was known from
\* the first item
C2_Witness ==
  /\ loc.i = 1
  /\ loc.rec_ok = "true"
  /\ ~loc.rec_fresh
  /\ Len(playlist.streams) >= 2

InPlaylist == {"open", "version", "header", "item", "body", "stn", "record", "extra"}

\* What a step taken inside parse_playlist may do to playlists_.
CommitStep ==
  pc \in InPlaylist =>
    \/ playlists_' = playlists_ /\ ret' # "true"
    \/ /\ ret' = "true"
       /\ pc' = "scan"
       /\ loc.i = loc.nitems
       /\ Len(playlist.items) = loc.nitems
       /\ playlists_' = Append(playlists_, playlist)

\* C3: while parse_playlist runs, playlists_ changes in one step only: the
\* one that returns true, which appends the playlist after all its declared
\* items were decoded; so a call that returns false leaves playlists_ as it
\* was before the call.
C3_NoPartialCommit == [][CommitStep]_vars

\* a call failed after items and streams were decoded, with playlists
\* committed before it
C3_Witness ==
  /\ pc = "scan"
  /\ ret = "false"
  /\ Len(playlist.items) >= 1
  /\ Len(playlist.streams) >= 1

C3_WitnessDisc ==
  /\ pc = "scan"
  /\ ret = "false"
  /\ Len(playlists_) >= 1
  /\ Len(playlist.items) >= 1

Prefix(f, m, n) == IF Len(f) >= n THEN SubSeq(f, m, n) ELSE <<>>
BadMagic(f) == Prefix(f, 1, 4) # MPLS \/ Prefix(f, 5, 8) \notin Versions

\* C4: a file whose first 4 bytes are not "MPLS", or whose next 4 are not
\* "0100", "0200" or "0300", is rejected after at most the two 4-byte reads:
\* no seek is issued, the cursor never passes offset 8, nothing is committed.
C4_MagicGate ==
  (IsPlaylistFile(entry) /\ BadMagic(entry.file)) =>
    /\ pc \in {"open", "version", "scan", "end", "idle"}
    /\ ret # "true"
    /\ reader.seeks = 0
    /\ reader.ops <= 2
    /\ reader.pos <= 8

\* a file with the signature and a version that is not accepted was rejected
C4_Witness ==
  /\ pc = "scan"
  /\ ret = "false"
  /\ entry.readable
  /\ Prefix(entry.file, 1, 4) = MPLS
  /\ Len(entry.file) > 12
  /\ reader.pos = 8


DistinctClips(items) ==
  \A m, n \in 1..Len(items) : items[m].file_name = items[n].file_name => m = n

\* C5: the items of the playlist being decoded and of every committed
\* playlist have pairwise distinct file names, and a file whose two items
\* name the same clip returns false and leaves no playlist of its own.
C5_DuplicateClipRejected ==
  /\ DistinctClips(playlist.items)
  /\ \A p \in Range(playlists_) : DistinctClips(p.items)
  /\ (IsPlaylistFile(entry) /\ entry.file \in {ClipPairFile(1, 1), ClipPairFile(2, 2)}) =>
       /\ ret # "true"
       /\ pc = "scan" => ret = "false"
       /\ \A p \in Range(playlists_) : p.mpls_file_name # entry.name

\* the second item of a file named the clip of the first, which had been
\* decoded, and the call returned false
C5_Witness ==
  /\ pc = "scan"
  /\ ret = "false"
  /\ entry.file = ClipPairFile(1, 1)
  /\ Len(playlist.items) = 1
  /\ loc.i = 1

\* The header of the current file was decoded and its item loop has ended.
ItemsDone == playlist.mpls_file_name # <<>> /\ loc.i = loc.nitems

\* C6: a file whose header declares no item, or whose items' durations sum to
\* zero, is rejected; every committed playlist has a non-zero duration and at
\* least one item.
C6_ZeroDurationRejected ==
  /\ \A p \in Range(playlists_) : p.duration # Zero64 /\ Len(p.items) >= 1
  /\ (ItemsDone /\ (loc.nitems = 0
                      \/ SumDurations(playlist.items, Len(playlist.items)) = Zero64)) =>
       /\ ret # "true"
       /\ pc = "scan" => ret = "false"

\* two items were decoded, neither of zero length, their durations sum to
\* zero modulo 2^64, and the call returned false
C6_Witness ==
  /\ pc = "scan"
  /\ ret = "false"
  /\ ItemsDone
  /\ loc.nitems = 2
  /\ playlist.duration = Zero64
  /\ playlist.items[1].end_pts # playlist.items[1].start_pts

\* C7: right after read_stream_info returned true, the cursor is at the end
\* of the attribute sub-record (pos + size) and the stream is good.
C7_ResyncAtEnd ==
  (pc \in {"record", "extra"} /\ loc.rec_ok = "true") =>
    /\ reader.pos = loc.rec_end
    /\ ~reader.fail

\* The same where seeking past the end of the file is not an error.
ResyncWhenSeekable == ~seek_past_end_fails => C7_ResyncAtEnd

ScenarioDecoded == entry.file = ScenarioFile /\ ret = "true"
\* A readable scenario file is rejected only for a clip that does not exist
\* or as a structural duplicate of a committed playlist.
ScenarioRejections ==
  (IsPlaylistFile(entry) /\ entry.readable /\ entry.file = ScenarioFile
     /\ pc = "scan" /\ ret = "false") =>
    \/ args.check_m2ts_files /\ ClipPath(RootPath, ClipName(2)) \notin clips
    \/ args.skip_playlist_duplicate
         /\ \E p \in Range(playlists_) : p.duration = U64(200000000)

\* C8 as stated: the file of two items, each from raw 0 to raw 450000,
\* decodes to duration 20_000_000 with the second item starting at 10_000_000.
C8_ScenarioAsStated ==
  ScenarioDecoded =>
    /\ playlist.duration = U64(20000000)
    /\ playlist.items[2].start_time = U64(10000000)

\* C8, amended: that file decodes to duration 200_000_000 with the second
\* item starting at 100_000_000 (450000 ticks of the 45 kHz clock are 10 s).
C8_Scenario ==
  /\ ScenarioRejections
  /\ ScenarioDecoded =>
       /\ playlist \in Range(playlists_)
       /\ Len(playlist.items) = 2
       /\ playlist.duration = U64(200000000)
       /\ playlist.items[2].start_time = U64(100000000)

\* the scenario file was decoded with the clip check on
C8_Witness == ScenarioDecoded /\ args.check_m2ts_files /\ pc = "scan"

LessEq64(a, b) == ~Less64(b, a)
Mul64(a, k) == MulLimbs(a, k, 0)

\* C9: the stored value p for a raw value r is the quotient of r * 10^7 by
\* 45000 (45000 * p <= 10^7 * r < 45000 * (p + 1)), and the conversion does
\* not decrease from r to r + 1.
C9_PtsConversion ==
  conv # <<>> =>
    LET scaled == Mul64(Mul64(Widen(conv.raw), 10000), 1000)
        low == Mul64(conv.pts, 45000)
    IN  /\ LessEq64(low, scaled)
        /\ Less64(scaled, Add64(low, U64(45000)))
        /\ conv.raw # <<255, 255, 255, 255>> => LessEq64(conv.pts, pts_of_raw(conv.raw1))
        /\ conv.pts1 = pts_of_raw(conv.raw1)

\* the largest raw value was converted, to a value of more than 32 bits
C9_Witness ==
  /\ conv # <<>>
  /\ conv.raw = <<255, 255, 255, 255>>
  /\ conv.pts[5] > 0

Count(s, x) == Cardinality({n \in 1..Len(s) : s[n] = x})

\* C10: when parse has returned true, playlists_ is in order of non-increasing
\* duration and is a reordering of the playlists committed during the call.
C10_SortedByDuration ==
  result = "true" =>
    /\ \A n \in 1..Len(playlists_) - 1 :
         LessEq64(playlists_[n + 1].duration, playlists_[n].duration)
    /\ Len(playlists_) = Len(committed)
    /\ \A p \in Range(committed) : Count(playlists_, p) = Count(committed, p)

\* three playlists were committed, the shortest first, then the longest,
\* then the one in between, and parse returned true
C10_Witness ==
  /\ result = "true"
  /\ Len(committed) = 3
  /\ Less64(committed[1].duration, committed[3].duration)
  /\ Less64(committed[3].duration, committed[2].duration)

\* Between two files and after the loop: every entry iterated so far was
\* skipped by the filter or decoded by a parse_playlist call that returned,
\* whatever the calls before it returned; the loop ends only at the end of
\* the directory; playlists_ holds one playlist per call that returned true.
ScanState ==
  /\ pc \in {"scan", "end"} =>
       /\ Len(rets) = nentries
       /\ nentries > 0 => (IsPlaylistFile(entry) <=> rets[nentries] # "skipped")
       /\ Count(rets, "true") = Len(committed)
       /\ playlists_ = committed
  /\ pc = "end" => nentries = ndir
  /\ (pc = "idle" /\ result = "true") =>
       /\ Len(rets) = ndir
       /\ Count(rets, "true") >= 1
       /\ Len(playlists_) = Count(rets, "true")
       /\ \A p \in Range(committed) : Count(playlists_, p) = Count(committed, p)

\* parse's return value: false from the path check (no loop was run) or
\* after a loop that committed nothing, true after any other loop; no step
\* of a decode sets it.
ScanStep ==
  /\ pc = "end" => result' = IF Count(rets, "true") = 0 THEN "false" ELSE "true"
  /\ (result' = "false" /\ result # "false") =>
       \/ pc = "idle" /\ pc' = "idle"
       \/ pc = "end" /\ committed = <<>>
  /\ pc \notin {"idle", "end"} => result' = result

\* C11: a file that fails to decode does not stop the scan: every remaining
\* .mpls file is still decoded; parse returns false only for a missing path
\* or when no playlist was committed, and true otherwise, with exactly the
\* playlists of the calls that returned true.
C11_ScanGoesOn == []ScanState /\ [][ScanStep]_vars

\* a directory of three files: the first failed, the second was committed,
\* the third failed, and parse returned true
C11_Witness ==
  /\ pc = "idle"
  /\ result = "true"
  /\ rets = <<"false", "true", "false">>

\* C12: when a cursor operation fails inside read_stream_info (which leaves
\* the stream failed), read_stream_info returns false: after a call that
\* returned true the stream is good.
C12_CursorFailureFails ==
  (pc \in {"record", "extra"} /\ loc.rec_ok = "true") => ~reader.fail

\* Equal in everything but the name of the file decoded.
SameContent(a, b) ==
  [a EXCEPT !.mpls_file_name = <<>>] = [b EXCEPT !.mpls_file_name = <<>>]

\* The item loop of the current file ran to its end and the duration is not
\* zero, yet parse_playlist returned false.
RejectedAtEnd ==
  pc = "scan" /\ ret = "false" /\ ItemsDone /\ playlist.duration # Zero64

\* C13: with skip_playlist_duplicate, no two playlists of playlists_ are equal
\* in duration, items and streams, and a playlist is rejected after its last
\* item only for being equal to one already there; without it, no playlist
\* is rejected for that.
C13_StructuralDuplicates ==
  /\ args.skip_playlist_duplicate =>
       \A m, n \in 1..Len(playlists_) :
         m < n => ~SameContent(playlists_[m], playlists_[n])
  /\ RejectedAtEnd =>
       /\ args.skip_playlist_duplicate
       /\ \E p \in Range(playlists_) : SameContent(p, playlist)

\* a second file with the content of a committed one was rejected
C13_Witness ==
  /\ RejectedAtEnd
  /\ Len(playlists_) >= 1
  /\ playlist.mpls_file_name \notin {p.mpls_file_name : p \in Range(playlists_)}

\* C14: when a cursor operation of read_stn_info itself fails (its error code
\* is set), read_stn_info returns false: no item is appended after an STN
\* block whose decode set the error code.
C14_StnFailureFails ==
  (pc = "item" /\ loc.i > 0) => ~loc.stn_ec

\* A turn of a record loop is about to be taken: read_stream_info is called
\* with the cursor at reader.pos.
RecordTurn == pc = "record" /\ loc.k < LoopBound(loc.counts, loc.cat)

\* The bytes between the shape tag and the PID, and the PID as the two bytes
\* after them, for a record that starts at offset at of file f.
TagAt(f, at) == f[at + 2]
GapAt(f, at) == CASE TagAt(f, at) \in {2, 4} -> 2 [] TagAt(f, at) = 3 -> 1 [] OTHER -> 0
PidAt(f, at) == 256 * f[at + 3 + GapAt(f, at)] + f[at + 4 + GapAt(f, at)]

\* One call of read_stream_info on a record whose tag byte is in the file.
PidShapeStep ==
  (RecordTurn /\ ~reader.fail /\ reader.pos + 2 <= Len(File)) =>
    IF TagAt(File, reader.pos) \notin 1..4
    THEN /\ ret' = "false"
         /\ playlist'.streams = playlist.streams
    ELSE (ret' # "false" /\ reader.pos + 4 + GapAt(File, reader.pos) <= Len(File)) =>
           IF Len(playlist'.streams) > Len(playlist.streams)
           THEN /\ Last(playlist'.streams).pid = PidAt(File, reader.pos)
                /\ \A s \in Range(playlist.streams) : s.pid # PidAt(File, reader.pos)
           ELSE \E s \in Range(playlist.streams) : s.pid = PidAt(File, reader.pos)

\* C15: the PID of a record is the big-endian 16-bit value right after the
\* shape tag for tag 1, after 2 more bytes for tags 2 and 4, after 1 more
\* byte for tag 3; a record with any other tag makes read_stream_info return
\* false and adds nothing to the streams.
C15_PidByShape == [][PidShapeStep]_vars

\* a record of shape 3 was decoded and appended with its PID
C15_Witness ==
  /\ pc = "record"
  /\ loc.rec_ok = "true"
  /\ loc.rec_fresh
  /\ TagAt(File, loc.rec_at) = 3
  /\ Last(playlist.streams).pid = PidB

\* C16: a record whose coding tag is not a value of StreamType is not
\* appended by read_stream_info, and no committed stream has such a type.
C16_TypeInEnum ==
  /\ (pc \in {"record", "extra"} /\ loc.rec_ok = "true" /\ loc.rec_fresh) =>
       Last(playlist.streams).type \in StreamTypes
  /\ \A p \in Range(playlists_) : \A st \in Range(p.streams) : st.type \in StreamTypes

\* The offset of the attribute sub-record's length byte, for a record that
\* starts at offset at of file f, and the end of that sub-record.
AttrAt(f, at) == at + 1 + f[at + 1]
AttrEnd(f, at) == AttrAt(f, at) + 1 + f[AttrAt(f, at) + 1]

\* read_stream_info is called on a record whose two length bytes, tag and
\* PID are in the file and whose PID is already in the playlist's streams.
KnownPidTurn ==
  /\ RecordTurn
  /\ ~reader.fail
  /\ reader.pos + 2 <= Len(File)
  /\ TagAt(File, reader.pos) \in 1..4
  /\ reader.pos + 4 + GapAt(File, reader.pos) <= Len(File)
  /\ AttrAt(File, reader.pos) + 1 <= Len(File)
  /\ \E st \in Range(playlist.streams) : st.pid = PidAt(File, reader.pos)

\* The call returns true, leaves the streams as they were, issues only the
\* operations up to the second position query and the closing seek (8, or
\* 9 with the skip of shapes 2, 3, 4), and ends at the end of the attribute
\* sub-record.
KnownPidStep ==
  KnownPidTurn =>
    /\ ret' # "false"
    /\ playlist'.streams = playlist.streams
    /\ reader'.ops = reader.ops + 8 + (IF GapAt(File, reader.pos) > 0 THEN 1 ELSE 0)
    /\ reader'.pos = AttrEnd(File, reader.pos)
    /\ ~reader'.fail

\* C17: a record whose PID is already known is passed over: success, the
\* streams unchanged, neither coding tag nor payload read, the cursor left
\* at the end of the attribute sub-record.
C17_KnownPidSkipped == [][KnownPidStep]_vars

\* The same where seeking past the end of the file is not an error.
KnownPidWhenSeekable == [][~seek_past_end_fails => KnownPidStep]_vars

\* What the type of a stream record says it is.
KindOfType(type) ==
  CASE type \in VideoTypes -> "Video"
    [] type \in AudioTypes -> "Audio"
    [] type \in {PRESENTATION_GRAPHICS, INTERACTIVE_GRAPHICS, SUBTITLE} -> "Subtitles"
    [] OTHER -> "none"

\* C18: in a committed playlist, a stream of a video type has a video_format
\* other than Unknown and no channel_layout, one of an audio type has a
\* channel_layout other than Unknown and no video_format, one of a graphics
\* or subtitle type has neither; format() answers accordingly.
C18_FormatByType ==
  \A p \in Range(playlists_) : \A st \in Range(p.streams) :
    KindOfType(st.type) # "none" =>
      /\ format(st) = KindOfType(st.type)
      /\ (st.video_format # 0) <=> (KindOfType(st.type) = "Video")
      /\ (st.channel_layout # 0) <=> (KindOfType(st.type) = "Audio")

\* The number of turns the loops before that of category cat are to take.
RECURSIVE TurnsBefore(_, _)
TurnsBefore(counts, cat) ==
  IF cat = 1 THEN 0 ELSE TurnsBefore(counts, cat - 1) + LoopBound(counts, cat - 1)

\* C19: during read_stn_info the calls of read_stream_info made so far are
\* those of the loops before the current one plus the turns taken in it,
\* never more than the counts add up to; when read_stn_info returns true
\* they are exactly that many; a call that returns false ends the decode.
C19_CallsByCounts ==
  /\ pc = "record" => loc.calls = TurnsBefore(loc.counts, loc.cat) + loc.k
  /\ pc = "extra" => loc.calls = TurnsBefore(loc.counts, loc.cat) + loc.k + 1
  /\ pc \in {"record", "extra"} => loc.calls <= TurnsBefore(loc.counts, 7)
  /\ (pc = "item" /\ loc.i > 0) => loc.calls = TurnsBefore(loc.counts, 7)
  /\ loc.rec_ok = "false" => pc \in {"scan", "end", "idle"} /\ ret = "false"

\* The same where num_pg + num_pip_pg fits the 8-bit loop counter.
CallsWithinByte == LoopBound(loc.counts, 3) <= 255 => C19_CallsByCounts

\* The 32-bit address of the playlist block and the item count it declares,
\* as the bytes of file f give them.
AddrOf(f) == ((f[9] * 256 + f[10]) * 256 + f[11]) * 256 + f[12]
DeclaredItems(f) == 256 * f[AddrOf(f) + 7] + f[AddrOf(f) + 8]

\* Where item n (from 0) of file f starts: 10 bytes into the playlist block
\* for the first, the previous item's start plus its length field plus 2
\* for the others.
RECURSIVE ItemAt(_, _)
ItemAt(f, n) ==
  IF n = 0 THEN AddrOf(f) + 10
  ELSE LET at == ItemAt(f, n - 1)
       IN  at + 256 * f[at + 1] + f[at + 2] + 2

\* C20: item i is read at the offset the length fields of the items before
\* it give, wherever the cursor was left by the item before; no more items
\* are attempted than the header declares, and a committed playlist holds
\* exactly that many, in the order of the file.
C20_ItemOffsets ==
  /\ pc = "body" =>
       /\ reader.pos = ItemAt(File, loc.i) + 11
       /\ loc.psa = ItemAt(File, loc.i + 1)
       /\ loc.item.file_name =
            ClipPath(RootPath, SubSeq(File, ItemAt(File, loc.i) + 3, ItemAt(File, loc.i) + 7))
  /\ pc \in {"item", "body", "stn", "record", "extra"} =>
       /\ loc.nitems = DeclaredItems(File)
       /\ Len(playlist.items) = loc.i
       /\ loc.i <= loc.nitems
       /\ pc # "item" => loc.i < loc.nitems
  /\ (pc = "scan" /\ ret = "true") =>
       /\ Len(playlist.items) = DeclaredItems(File)
       /\ \A n \in 1..Len(playlist.items) :
            playlist.items[n].file_name =
              ClipPath(RootPath, SubSeq(File, ItemAt(File, n - 1) + 3, ItemAt(File, n - 1) + 7))

\* the second item of the file with filler after its first item is being
\* decoded: the cursor was left 3 bytes before it by the first item
C20_Witness ==
  /\ File = GapFile
  /\ pc = "body"
  /\ loc.i = 1

\* For the item that starts at offset at of file f: whether bit 4 of its
\* second flag byte is set, the byte that follows the 12 bytes after the end
\* PTS, and where its STN block starts by these.
MultiAngleAt(f, at) == (f[at + 13] \div 16) % 2 = 1
AnglesAt(f, at) == IF f[at + 35] < 1 THEN 1 ELSE f[at + 35]
StnAt(f, at) ==
  at + 22 + (IF MultiAngleAt(f, at) THEN 12 + 2 + 10 * (AnglesAt(f, at) - 1) ELSE 12)

\* The step from the flag bytes to the STN block: the cursor ends where the
\* STN block starts; 4 operations are issued without the multi-angle bit
\* (flags, two PTS, the skip of 12), and with it the read of the angle
\* count, the skip of 1 and one skip per further angle.
AngleStep ==
  (pc = "body" /\ pc' = "stn") =>
    LET at == ItemAt(File, loc.i)
    IN  /\ reader.pos = at + 11
        /\ reader'.pos = StnAt(File, at)
        /\ reader'.ops = reader.ops +
             (IF MultiAngleAt(File, at) THEN 4 + 2 + (AnglesAt(File, at) - 1) ELSE 4)

\* The counts read_stn_info has read are the seven bytes that follow the 4
\* reserved bytes at the start of the STN block.
StnWhereExpected ==
  (pc \in {"record", "extra"}) =>
    loc.counts = SubSeq(File, StnAt(File, ItemAt(File, loc.i)) + 5,
                              StnAt(File, ItemAt(File, loc.i)) + 11)

\* C21: the STN block of an item is decoded from 12 bytes after the end PTS
\* when bit 4 of the second flag byte is 0, no angle byte being read, and
\* from 12 + 2 + 10 * (max(angle_count, 1) - 1) bytes after it when the bit
\* is 1, angle_count being the byte after the 12 skipped ones.
C21_AngleBlock == []StnWhereExpected /\ [][AngleStep]_vars

\* a multi-angle item with 3 angles has reached its STN block
C21_Witness ==
  /\ pc = "record"
  /\ MultiAngleAt(File, ItemAt(File, loc.i))
  /\ File[ItemAt(File, loc.i) + 35] = 3
  /\ loc.counts[1] = 1

\* Equal duration, equal items and the same set of stream records.
SameStreamSet(a, b) ==
  /\ a.duration = b.duration
  /\ a.items = b.items
  /\ Range(a.streams) = Range(b.streams)

\* C22: structural equality takes the streams as a set keyed by pid: with
\* skip_playlist_duplicate, no two playlists of playlists_ have equal
\* duration, equal items and the same set of stream records, whatever the
\* order in which their files list the records.
C22_StreamsAsSet ==
  args.skip_playlist_duplicate =>
    \A m, n \in 1..Len(playlists_) :
      m < n => ~SameStreamSet(playlists_[m], playlists_[n])

\* What the comparison of the code gives: two playlists of playlists_ with the
\* same set of stream records differ in the order of the records.
C22_OrderCompared ==
  args.skip_playlist_duplicate =>
    \A m, n \in 1..Len(playlists_) :
      (m < n /\ SameStreamSet(playlists_[m], playlists_[n])) =>
        playlists_[m].streams # playlists_[n].streams

\* A turn of a record loop that does not fail leaves the cursor at least 2
\* bytes further (the length byte and the shape tag were read); a turn taken
\* with the cursor at or past the end of the file fails.
RecordAdvances ==
  RecordTurn =>
    /\ pc' # "scan" => reader'.pos >= reader.pos + 2
    /\ reader.pos >= Len(File) => pc' = "scan" /\ ret' = "false"

\* Inside read_stn_info the calls of read_stream_info made so far are no
\* more than half the bytes the cursor has passed, and the loops of
\* parse_playlist with a counter keep it within its bound.
LoopsBounded ==
  /\ pc \in {"record", "extra"} => 2 * loc.calls <= reader.pos
  /\ pc \in {"item", "body", "stn", "record", "extra"} => loc.i <= loc.nitems
  /\ pc \in {"record", "extra"} => loc.k <= 255

\* C23: parse_playlist terminates on every file: a call that has begun
\* returns, since every loop has a bounded counter or moves the cursor
\* forward until a read fails at the end of the file (the loop over
\* num_pg + num_pip_pg > 255 records included).
C23_Terminates ==
  /\ (pc \notin {"idle", "scan", "end"}) ~> (pc = "scan")
  /\ []LoopsBounded
  /\ [][RecordAdvances]_vars

\* the loop over num_pg + num_pip_pg = 256 records took more than 256 turns
\* and the call returned, false
C23_Witness ==
  /\ pc = "scan"
  /\ ret = "false"
  /\ LoopBound(loc.counts, 3) > 255
  /\ loc.cat = 3
  /\ loc.calls > 256

\* From one parse call to the next: a step that stays between two calls (the
\* return of false for a missing path) leaves playlists_ as it is; the step
\* that passes the path check empties it; the return of false after the
\* loop leaves it empty.
CallStep ==
  /\ (pc = "idle" /\ pc' = "idle") => playlists_' = playlists_
  /\ (pc = "idle" /\ pc' # "idle") => playlists_' = <<>>
  /\ (pc = "end" /\ result' = "false") => playlists_' = <<>>

\* During a call playlists_ holds the playlists this call has committed and
\* no other; between two calls it holds those of the last call that passed
\* the path check.
CallState ==
  /\ pc # "idle" => playlists_ = committed
  /\ pc = "idle" =>
       /\ Len(playlists_) = Len(committed)
       /\ \A p \in Range(committed) : Count(playlists_, p) = Count(committed, p)
  /\ Len(playlists_) <= ndir

\* C24: across successive parse calls, a false return for a missing path
\* leaves playlists_ unchanged, the previous result still there; once the
\* path check passes playlists_ is cleared before any file is decoded, so
\* the results of two calls never accumulate, and a parse that returns false
\* for lack of a decodable playlist leaves playlists_ empty.
C24_SuccessiveCalls == []CallState /\ [][CallStep]_vars

\* after a call that returned playlists, a call returned false for a missing
\* path: the playlists are still there
C24_Witness ==
  /\ pc = "idle"
  /\ result = "false"
  /\ playlists_ # <<>>

=============================================================================
